---- MODULE Spec2Model ----
(***************************************************************************)
(* A model of yt_dlp/extractor/flomarching.py (class FloMarchingIE).        *)
(*                                                                         *)
(* The class is modelled as an object whose methods are invoked one at a   *)
(* time on arguments and an environment (cookie jar, remote answers,       *)
(* clock, time zone) drawn from bounded sets.  Python strings are          *)
(* sequences of one-character strings, a dict is a function whose DOMAIN   *)
(* is the set of keys it holds, and None is a value of its own.            *)
(***************************************************************************)
EXTENDS Integers, Sequences, FiniteSets, TLC

VARIABLES
    op,        \* the method invoked ("idle" before any call)
    args,      \* the arguments it was invoked with
    env,       \* the environment of the call
    pc,        \* the position reached in the method
    locals,    \* the local variables of a method that runs in several steps
    ret,       \* what the call produced: a returned value or a raised exception
    screen,    \* the messages passed to self.to_screen, in order
    warnings,  \* the messages passed to self.report_warning, in order
    net        \* the network requests issued, in order

vars == <<op, args, env, pc, locals, ret, screen, warnings, net>>

----------------------------------------------------------------------------
(* Python values *)

None == <<"<None>">>

\* truth value of a str or None
Truthy(x) == x # None /\ x # <<>>

LowerChar(c) ==
    CASE c = "A" -> "a"
      [] c = "B" -> "b"
      [] c = "M" -> "m"
      [] OTHER -> c

\* str.lower()
Lower(s) == [i \in DOMAIN s |-> LowerChar(s[i])]

\* sub in s
Contains(sub, s) ==
    \E i \in 0..(Len(s) - Len(sub)) : SubSeq(s, i + 1, i + Len(sub)) = sub

\* dict.get(k, default)
Get(d, k, default) == IF k \in DOMAIN d THEN d[k] ELSE default

DigitChars == <<"0", "1", "2", "3", "4", "5", "6", "7", "8", "9">>

RECURSIVE Digits(_)
Digits(n) ==
    IF n < 10 THEN <<DigitChars[n + 1]>>
    ELSE Digits(n \div 10) \o <<DigitChars[(n % 10) + 1]>>

\* str(n) of an int, as f-strings apply it
Str(n) == IF n < 0 THEN <<"-">> \o Digits(0 - n) ELSE Digits(n)

\* str(None)
StrNone == <<"N", "o", "n", "e">>

Return(v) == [kind |-> "return", value |-> v]
Raise(e, m, x) == [kind |-> "raise", exc |-> e, msg |-> m, expected |-> x]

----------------------------------------------------------------------------
(* _apply_time_parameters *)

\* datetime.utcnow(): the naive wall-clock reading of UTC
UtcNow(clock) == clock

\* naive - timedelta(minutes = m)
MinusMinutes(t, m) == [sec |-> t.sec - 60 * m, usec |-> t.usec]

\* naive.timestamp(): a naive datetime is read as LOCAL time, so the reading
\* is taken back to UTC by the local zone's offset (local = UTC + tz)
Timestamp(t, tz) == [sec |-> t.sec - tz, usec |-> t.usec]

\* int(float): truncation toward zero
IntOf(ts) == IF ts.sec < 0 /\ ts.usec > 0 THEN ts.sec + 1 ELSE ts.sec

\* strftime("%H:%M:%S UTC") of a naive datetime
ClockFace(t) == <<(t.sec \div 3600) % 24, (t.sec \div 60) % 60, t.sec % 60>>

StartParam == <<"s", "t", "a", "r", "t", "=">>

ApplyTimeParameters(stream_uri, lookback_minutes, clock, tz) ==
    IF lookback_minutes <= 0
    THEN [ret |-> stream_uri, screen |-> <<>>]
    ELSE LET separator == IF Contains(<<"?">>, stream_uri) THEN <<"&">> ELSE <<"?">>
             lookback_time == MinusMinutes(UtcNow(clock), lookback_minutes)
             unix_timestamp == IntOf(Timestamp(lookback_time, tz))
             modified_uri == stream_uri \o separator \o StartParam \o Str(unix_timestamp)
         IN  [ret |-> modified_uri,
              screen |-> << [msg |-> "Attempting to seek back",
                             minutes |-> lookback_minutes,
                             to |-> ClockFace(lookback_time)] >>]

----------------------------------------------------------------------------
(* _filter_stream_by_name *)

NameOrEmpty(stream) == Get(stream, "name", <<>>)

\* s.get('name', f'Stream {s.get("id")}')
StreamLabel(s) ==
    Get(s, "name", <<"S", "t", "r", "e", "a", "m", " ">>
                      \o (IF "id" \in DOMAIN s THEN Str(s.id) ELSE StrNone))

\* A changed first loop: the names are compared as they are written.
ExactMatchesCaseSensitive(stream_list, target_name) ==
    {i \in DOMAIN stream_list : NameOrEmpty(stream_list[i]) = target_name}

\* The first loop: the positions whose lowered name equals the lowered target.
ExactMatches(stream_list, target_name) ==
    {i \in DOMAIN stream_list :
       Lower(NameOrEmpty(stream_list[i])) = Lower(target_name)}

\* A changed second loop: it stops at the first stream found.
PartialMatchesFirstOnly(stream_list, target_name) ==
    LET found == SelectSeq(stream_list,
                           LAMBDA s : Contains(Lower(target_name), Lower(NameOrEmpty(s))))
    IN  IF found = <<>> THEN <<>> ELSE <<Head(found)>>

\* The second loop: the streams whose lowered name contains the lowered target.
PartialMatches(stream_list, target_name) ==
    SelectSeq(stream_list,
              LAMBDA s : Contains(Lower(target_name), Lower(NameOrEmpty(s))))

FilterStreamByName(stream_list, target_name) ==
    IF ~Truthy(target_name)
    THEN [ret |-> stream_list, screen |-> <<>>, warnings |-> <<>>]
    ELSE
    LET exact == ExactMatches(stream_list, target_name)
        matching_streams == PartialMatches(stream_list, target_name)
    IN  IF exact # {}
        THEN LET stream == stream_list[CHOOSE i \in exact : \A j \in exact : i <= j]
             IN  [ret |-> <<stream>>,
                  screen |-> << [msg |-> "Found exact match for stream",
                                 name |-> Get(stream, "name", None)] >>,
                  warnings |-> <<>>]
        ELSE IF matching_streams # <<>>
        THEN [ret |-> matching_streams,
              screen |-> << [msg |-> "Found streams matching",
                             count |-> Len(matching_streams),
                             target |-> target_name,
                             names |-> [i \in DOMAIN matching_streams |->
                                          Get(matching_streams[i], "name", None)]] >>,
              warnings |-> <<>>]
        ELSE [ret |-> stream_list,
              screen |-> <<>>,
              warnings |-> << [msg |-> "Stream not found. Available streams",
                               target |-> target_name,
                               available |-> [i \in DOMAIN stream_list |->
                                                StreamLabel(stream_list[i])]] >>]

----------------------------------------------------------------------------
(* _configuration_arg, _get_extractor_args *)

\* The class overrides the framework's option lookup with a static stub:
\* whatever the user configured, the default comes back.
ConfigurationArg(ie_key, option_name, casesense, default) == default

\* int(x) of an int
PyInt(x) == x

GetExtractorArgs ==
    [stream_name |-> ConfigurationArg("flomarching", "stream_name", FALSE, None),
     delay_minutes |-> PyInt(ConfigurationArg("flomarching", "delay_minutes", FALSE, 0)),
     lookback_minutes |-> PyInt(ConfigurationArg("flomarching", "lookback_minutes", FALSE, 0))]

----------------------------------------------------------------------------
(* _get_stream_token *)

TokenRequest(stream_id, jwt_token) ==
    [method |-> "POST",
     endpoint |-> "live-api-3.flosports.tv/streams/{stream_id}/tokens",
     id |-> stream_id,
     authorization |-> <<"Bearer", jwt_token>>,
     payload |-> [adTracking |-> [appName |-> "flosports-web"]]]

\* self._download_json with the default fatal=True: a failed request or an
\* unparsable body raises ExtractorError, otherwise the parsed body comes back
DownloadJson(answer) ==
    IF answer.ok THEN Return(answer.body)
    ELSE Raise("ExtractorError", "Unable to download JSON metadata", FALSE)

\* The downloaded body is bound to the local `response`; the method ends
\* there, so a call that does not raise evaluates to None.
GetStreamToken(stream_id, jwt_token, answer) ==
    LET response == DownloadJson(answer)
    IN  [net |-> <<TokenRequest(stream_id, jwt_token)>>,
         ret |-> IF response.kind = "raise" THEN response ELSE Return(None)]

----------------------------------------------------------------------------
(* _get_event_title *)

IsBlank(s) == \A i \in DOMAIN s : s[i] = " "

\* str.strip()
Strip(s) ==
    IF IsBlank(s) THEN <<>>
    ELSE LET first == CHOOSE i \in DOMAIN s : s[i] # " " /\ \A j \in 1..(i - 1) : s[j] = " "
             last == CHOOSE i \in DOMAIN s : s[i] # " " /\ \A j \in (i + 1)..Len(s) : s[j] = " "
         IN  SubSeq(s, first, last)

\* self._search_regex(pattern, text, name, default=None): the captured group
\* as it stands in the text, or None when the pattern does not match
SearchRegex(captured) == captured

\* self._html_search_regex(..., default=d): the captured group with the
\* markup cleaned and the ends stripped, or d when the pattern does not match
HtmlSearchRegex(captured, default) ==
    IF captured = None THEN default ELSE Strip(captured)

DefaultTitle(event_id) ==
    <<"F", "l", "o", "M", "a", "r", "c", "h", "i", "n", "g", " ",
      "L", "i", "v", "e", " ", "E", "v", "e", "n", "t", " ">> \o event_id

ScheduleRequest(event_id) ==
    [method |-> "GET",
     endpoint |-> "api.flomarching.com/api/experiences/web/legacy-core/live-events/{event_id}/schedule",
     id |-> event_id]

\* schedule is the answer of the schedule API: [ok |-> FALSE] when the
\* download fails (fatal=False hands back False), else the page it served.
GetEventTitle(event_id, webpage, schedule) ==
    LET title_match == IF schedule.ok THEN SearchRegex(schedule.h2) ELSE None
        title == HtmlSearchRegex(webpage.h1, None)
        og == HtmlSearchRegex(webpage.og_title, None)
    IN  [net |-> <<ScheduleRequest(event_id)>>,
         ret |-> IF Truthy(title_match) THEN Strip(title_match)
                 ELSE IF Truthy(title) THEN Strip(title)
                 ELSE IF Truthy(og) THEN og
                 ELSE HtmlSearchRegex(webpage.title, DefaultTitle(event_id))]

----------------------------------------------------------------------------
(* _real_extract *)

\* The names the class body binds with a def statement.
ClassMethods ==
    {"_configuration_arg", "_get_extractor_args", "_apply_time_parameters",
     "_filter_stream_by_name", "_get_stream_token", "_get_event_title",
     "_real_extract"}

\* self.<name>() for a method the extractor is expected to define itself
LookupMethod(name) ==
    IF name \in ClassMethods THEN Return(name)
    ELSE Raise("AttributeError",
               <<"'FloMarchingIE' object has no attribute", name>>, FALSE)

----------------------------------------------------------------------------
(* Bounded inputs *)

MaxStreams == 3

StreamIds == {1, 2, 3}

Names == { <<"A">>, <<"a", "b">>, <<"A", "B">> }

Codes == { <<"b">> }

Descriptors ==
    {[id |-> i, name |-> n] : i \in StreamIds, n \in Names}
    \cup {[id |-> i] : i \in StreamIds}
    \cup {[id |-> i, name |-> <<"A">>, code |-> c] : i \in StreamIds, c \in Codes}

RECURSIVE SeqsUpTo(_, _)
SeqsUpTo(S, n) ==
    IF n = 0 THEN {<<>>}
    ELSE LET shorter == SeqsUpTo(S, n - 1)
         IN  shorter \cup {Append(q, x) : q \in {r \in shorter : Len(r) = n - 1}, x \in S}

Registries == SeqsUpTo(Descriptors, MaxStreams)

Hints == { None, <<>>, <<"a">>, <<"A">>, <<"b">>, <<"a", "b">>, <<"A", "B">>,
           <<"1">>, <<"2">>, <<"z">> }

PlainUri == <<"h", "t", "t", "p", "s", ":", "/", "/", "x", "/", "y", ".", "m", "3", "u", "8">>

Uris == { PlainUri, PlainUri \o <<"?", "a", "=", "1">> }

Lookbacks == {-5, 0, 1, 10}

Clocks == {[sec |-> s, usec |-> u] : s \in {1700000000, 1700003599}, u \in {0, 999999}}

TzOffsets == {-18000, 0, 3600}

JwtTokens == {<<"j", "1">>, <<"j", "2">>}

PlaybackUri == <<"c", "/", "x">>

\* Bodies the token endpoint may answer with.
TokenBodies ==
    { [data |-> [uri |-> PlaybackUri]],
      [data |-> [cleanUri |-> PlaybackUri]],
      [data |-> [stream |-> [name |-> <<"A">>]]] }

TokenAnswers == {[ok |-> FALSE]} \cup {[ok |-> TRUE, body |-> b] : b \in TokenBodies}

EventIds == {<<"1", "2", "3", "4", "5">>, <<"1", "6", "4", "1", "0", "1">>}

Texts == {None, <<" ">>, <<"T">>, <<" ", "U", " ">>}

Webpages == {[h1 |-> a, og_title |-> b, title |-> c] : a \in Texts, b \in Texts, c \in Texts}

Schedules == {[ok |-> FALSE]} \cup {[ok |-> TRUE, h2 |-> t] : t \in Texts}

(* The surroundings of one _real_extract call. *)

\* What the user passed as --extractor-args "flomarching:stream_name=...".
UserHints == {None, <<"M", "a", "i", "n">>, <<"a">>, <<"z">>}

\* The cookie names held for https://www.flomarching.com.
CookieJars == { {}, {"session"}, {"session", "jwt_token"} }

Main == [id |-> 1, name |-> <<"M", "a", "i", "n">>]

CamA == [id |-> 1, name |-> <<"C", "a", "m", " ", "A">>]

CamB == [id |-> 2, name |-> <<"C", "a", "m", " ", "B">>]

CamBActive == [id |-> 2, name |-> <<"C", "a", "m", " ", "B">>, active |-> TRUE]

\* The flo-app-state script of the event page: missing, not parsable once
\* unescaped, or parsed to a dict that may hold a stream_list.
AppStates ==
    { [script |-> FALSE],
      [script |-> TRUE, parses |-> FALSE],
      [script |-> TRUE, parses |-> TRUE, state |-> [event |-> 1]],
      [script |-> TRUE, parses |-> TRUE, state |-> [stream_list |-> <<>>]] }
    \cup { [script |-> TRUE, parses |-> TRUE, state |-> [stream_list |-> l]] :
             l \in { <<Main>>, <<CamA, CamB>>, <<CamA, CamBActive>> } }

\* What the live-events metadata API would serve for the event.
FallbackLists == { <<>>, <<Main>> }

\* Per stream id: what the token endpoint would answer, and how many
\* renditions the manifest behind the playback URI would yield.
PageStreamIds == {Main.id, CamA.id, CamB.id}

TokenPlans == [PageStreamIds -> TokenAnswers]

ManifestPlans == [PageStreamIds -> {0, 1}]

\* The event page's headings and what the schedule API would serve.
EventPage == [h1 |-> <<"T">>, og_title |-> None, title |-> None]

EventSchedule == [ok |-> FALSE]

Surroundings ==
    [user_hint : UserHints, cookies : CookieJars, app_state : AppStates,
     fallback : FallbackLists, tokens : TokenPlans, manifests : ManifestPlans,
     webpage : {EventPage}, schedule : {EventSchedule}]

----------------------------------------------------------------------------
(* The calls *)

Init ==
    /\ op = "idle"
    /\ args = <<>>
    /\ env = <<>>
    /\ pc = "idle"
    /\ locals = <<>>
    /\ ret = [kind |-> "none"]
    /\ screen = <<>>
    /\ warnings = <<>>
    /\ net = <<>>

CallFilterStreamByName ==
    /\ pc = "idle"
    /\ \E stream_list \in Registries, target_name \in Hints :
         LET r == FilterStreamByName(stream_list, target_name)
         IN  /\ op' = "_filter_stream_by_name"
             /\ args' = [stream_list |-> stream_list, target_name |-> target_name]
             /\ ret' = Return(r.ret)
             /\ screen' = r.screen
             /\ warnings' = r.warnings
    /\ pc' = "done"
    /\ UNCHANGED <<env, locals, net>>

CallApplyTimeParameters ==
    /\ pc = "idle"
    /\ \E stream_uri \in Uris, lookback_minutes \in Lookbacks,
          clock \in Clocks, tz \in TzOffsets :
         LET r == ApplyTimeParameters(stream_uri, lookback_minutes, clock, tz)
         IN  /\ op' = "_apply_time_parameters"
             /\ args' = [stream_uri |-> stream_uri, lookback_minutes |-> lookback_minutes]
             /\ env' = [clock |-> clock, tz |-> tz]
             /\ ret' = Return(r.ret)
             /\ screen' = r.screen
    /\ pc' = "done"
    /\ UNCHANGED <<locals, warnings, net>>

CallGetStreamToken ==
    /\ pc = "idle"
    /\ \E stream_id \in StreamIds, jwt_token \in JwtTokens, answer \in TokenAnswers :
         LET r == GetStreamToken(stream_id, jwt_token, answer)
         IN  /\ op' = "_get_stream_token"
             /\ args' = [stream_id |-> stream_id, jwt_token |-> jwt_token]
             /\ env' = [token |-> answer]
             /\ ret' = r.ret
             /\ net' = r.net
    /\ pc' = "done"
    /\ UNCHANGED <<locals, screen, warnings>>

CallGetEventTitle ==
    /\ pc = "idle"
    /\ \E event_id \in EventIds, webpage \in Webpages, schedule \in Schedules :
         LET r == GetEventTitle(event_id, webpage, schedule)
         IN  /\ op' = "_get_event_title"
             /\ args' = [event_id |-> event_id, webpage |-> webpage]
             /\ env' = [schedule |-> schedule]
             /\ ret' = Return(r.ret)
             /\ net' = r.net
    /\ pc' = "done"
    /\ UNCHANGED <<locals, screen, warnings>>

(* _real_extract, statement by statement *)

\* event_id = self._match_id(url); args = self._get_extractor_args(); ...
RealExtractArgs ==
    /\ pc = "idle"
    /\ \E event_id \in EventIds, around \in Surroundings :
         /\ args' = [url |-> <<"https://www.flomarching.com/live/", event_id>>]
         /\ env' = around
         /\ locals' = [event_id |-> event_id,
                       stream_name |-> GetExtractorArgs.stream_name,
                       delay_minutes |-> GetExtractorArgs.delay_minutes,
                       lookback_minutes |-> GetExtractorArgs.lookback_minutes,
                       slept |-> 0]
    /\ op' = "_real_extract"
    /\ pc' = "delay"
    /\ UNCHANGED <<ret, screen, warnings, net>>

\* if delay_minutes > 0: to_screen(...); time.sleep(delay_minutes * 60)
RealExtractDelay ==
    /\ pc = "delay"
    /\ IF locals.delay_minutes > 0
       THEN /\ screen' = Append(screen, [msg |-> "Waiting before starting extraction",
                                         minutes |-> locals.delay_minutes])
            /\ locals' = [locals EXCEPT !.slept = 60 * locals.delay_minutes]
       ELSE UNCHANGED <<screen, locals>>
    /\ pc' = "jwt"
    /\ UNCHANGED <<op, args, env, ret, warnings, net>>

\* jwt_token = self._get_jwt_token(): the attribute lookup raises, and the
\* statement stands outside any try block, so the exception ends the call.
\* The statements that follow it in _real_extract are never reached.
RealExtractJwt ==
    /\ pc = "jwt"
    /\ ret' = LookupMethod("_get_jwt_token")
    /\ pc' = "done"
    /\ UNCHANGED <<op, args, env, locals, screen, warnings, net>>

Next ==
    \/ CallFilterStreamByName
    \/ CallApplyTimeParameters
    \/ CallGetStreamToken
    \/ CallGetEventTitle
    \/ RealExtractArgs
    \/ RealExtractDelay
    \/ RealExtractJwt

Spec == Init /\ [][Next]_vars

----------------------------------------------------------------------------
(* Vocabulary of the properties *)

FilterCalled == op = "_filter_stream_by_name" /\ pc = "done"

TimeCalled == op = "_apply_time_parameters" /\ pc = "done"

Finished == op = "_real_extract" /\ pc = "done"

HasName(s) == "name" \in DOMAIN s

\* The keys a descriptor can be looked up by: its name, its code, its id as text.
LookupKeys(s) ==
    (IF HasName(s) THEN {s.name} ELSE {})
    \cup (IF "code" \in DOMAIN s THEN {s.code} ELSE {})
    \cup (IF "id" \in DOMAIN s THEN {Str(s.id)} ELSE {})

\* Positions whose descriptor has the hint among its keys, as written.
KeyMatches(list, hint) == {i \in DOMAIN list : hint \in LookupKeys(list[i])}

\* Positions whose name equals the hint once letter case is ignored.
NameMatchesIgnoringCase(list, hint) ==
    {i \in DOMAIN list : HasName(list[i]) /\ Lower(list[i].name) = Lower(hint)}

\* Positions whose name contains the hint once letter case is ignored.
SubstringMatches(list, hint) ==
    {i \in DOMAIN list : HasName(list[i]) /\ Contains(Lower(hint), Lower(list[i].name))}

UniqueIds(list) ==
    \A i, j \in DOMAIN list : i # j => Get(list[i], "id", 0) # Get(list[j], "id", 0)

Least(S) == CHOOSE i \in S : \A j \in S : i <= j

\* The entries of list at the positions S, in the order of list.
EntriesAt(list, S) ==
    LET n == Cardinality(S)
        at == CHOOSE f \in [1..n -> S] : \A a, b \in 1..n : a < b => f[a] < f[b]
    IN  [k \in 1..n |-> list[at[k]]]

LoggedIn == "jwt_token" \in env.cookies

\* The stream_list of the page's flo-app-state script, <<>> when there is none.
EmbeddedList ==
    IF env.app_state.script
    THEN IF env.app_state.parses
         THEN Get(env.app_state.state, "stream_list", <<>>)
         ELSE <<>>
    ELSE <<>>

IsActive(s) == Get(s, "active", FALSE)

\* The selection the specification describes for a registry and a hint.
DescribedSelection(list, hint) ==
    IF hint = None
    THEN IF Len(list) <= 1 THEN list
         ELSE IF \E i \in DOMAIN list : IsActive(list[i])
         THEN <<list[Least({i \in DOMAIN list : IsActive(list[i])})]>>
         ELSE <<list[1]>>
    ELSE IF KeyMatches(list, hint) # {} THEN <<list[Least(KeyMatches(list, hint))]>>
    ELSE IF SubstringMatches(list, hint) # {} THEN EntriesAt(list, SubstringMatches(list, hint))
    ELSE list

Selected == DescribedSelection(EmbeddedList, env.user_hint)

CarriesUri(answer) ==
    /\ answer.ok
    /\ "data" \in DOMAIN answer.body
    /\ \E k \in {"uri", "cleanUri"} : k \in DOMAIN answer.body.data

\* The token endpoint answered, and its body lacks both uri and cleanUri.
LacksUri(answer) == answer.ok /\ ~CarriesUri(answer)

Playable(s) == CarriesUri(env.tokens[s.id]) /\ env.manifests[s.id] > 0

\* The stream ids of the token requests issued, in order.
TokenAttempts ==
    LET posts == SelectSeq(net, LAMBDA r : r.method = "POST")
    IN  [i \in DOMAIN posts |-> posts[i].id]

IdsOf(list) == [i \in DOMAIN list |-> list[i].id]

RaisedExtractorError(msg) ==
    ret.kind = "raise" /\ ret.exc = "ExtractorError" /\ ret.msg = msg

Returned == ret.kind = "return"

----------------------------------------------------------------------------
(* C1 *)

\* C1 (as stated): when the session is valid and streams are selected, a
\* token answer without uri and cleanUri for every selected stream makes
\* _real_extract fail with 'No playable streams found', and one playable
\* selected stream makes it return formats of exactly the playable streams.
C1_AsStated ==
    (Finished /\ LoggedIn /\ Selected # <<>>) =>
        /\ (\A i \in DOMAIN Selected : LacksUri(env.tokens[Selected[i].id]))
              => RaisedExtractorError("No playable streams found")
        /\ (\E i \in DOMAIN Selected : Playable(Selected[i]))
              => /\ Returned
                 /\ {f.format_note : f \in {ret.value.formats[k] : k \in DOMAIN ret.value.formats}}
                      = {Selected[i].name : i \in {j \in DOMAIN Selected : Playable(Selected[j])}}

----------------------------------------------------------------------------
(* C2 *)

\* C2 (as stated): with an empty cookie jar _real_extract ends with an
\* expected ExtractorError (log in / import cookies) and has issued no
\* network request.
C2_AsStated ==
    (Finished /\ env.cookies = {}) =>
        /\ ret.kind = "raise" /\ ret.exc = "ExtractorError" /\ ret.expected
        /\ net = <<>>

----------------------------------------------------------------------------
(* C3 *)

\* C3 (as stated): with no hint and an embedded stream_list of N >= 1
\* entries exactly one stream goes through the per-stream loop (the only
\* one, else the first active one, else the first), and for N > 1 a warning
\* names all N streams.
C3_AsStated ==
    (Finished /\ LoggedIn /\ env.user_hint = None /\ Len(EmbeddedList) >= 1) =>
        /\ TokenAttempts = IdsOf(DescribedSelection(EmbeddedList, None))
        /\ Len(TokenAttempts) = 1
        /\ Len(EmbeddedList) > 1 =>
              \E w \in DOMAIN warnings :
                  warnings[w].available = [i \in DOMAIN EmbeddedList |-> EmbeddedList[i].name]

----------------------------------------------------------------------------
(* C4 *)

\* C4 (as stated): a hint exactly equal to the name, the code or the id
\* (as text) of one descriptor selects exactly that descriptor.
C4_AsStated ==
    (/\ FilterCalled
     /\ Truthy(args.target_name)
     /\ UniqueIds(args.stream_list)
     /\ Cardinality(KeyMatches(args.stream_list, args.target_name)) = 1) =>
        ret.value = <<args.stream_list[Least(KeyMatches(args.stream_list, args.target_name))]>>

\* C4 (amended): a hint that equals, ignoring letter case, the name of at
\* least one descriptor selects exactly one descriptor, the first in
\* registry order whose name equals the hint ignoring case, whatever other
\* descriptors substring-match the hint.
C4_FirstNameMatch ==
    (/\ FilterCalled
     /\ Truthy(args.target_name)
     /\ NameMatchesIgnoringCase(args.stream_list, args.target_name) # {}) =>
        /\ Len(ret.value) = 1
        /\ ret.value[1] =
             args.stream_list[Least(NameMatchesIgnoringCase(args.stream_list, args.target_name))]

\* A call whose chosen descriptor stands behind another one that only
\* substring-matches the hint.
C4_Witness ==
    /\ FilterCalled
    /\ Truthy(args.target_name)
    /\ UniqueIds(args.stream_list)
    /\ NameMatchesIgnoringCase(args.stream_list, args.target_name) # {}
    /\ Least(NameMatchesIgnoringCase(args.stream_list, args.target_name)) > 1
    /\ 1 \in SubstringMatches(args.stream_list, args.target_name)
    /\ ret.value = <<args.stream_list[Least(NameMatchesIgnoringCase(args.stream_list, args.target_name))]>>

----------------------------------------------------------------------------
(* C5 *)

NamesListed(list, w) ==
    /\ Len(w.available) = Len(list)
    /\ \A i \in DOMAIN list : HasName(list[i]) => w.available[i] = list[i].name

\* What C5 promises of a call once its hint counts as matching no
\* descriptor exactly.
C5_Promise ==
    LET list == args.stream_list
        sub == SubstringMatches(list, args.target_name)
    IN  /\ Cardinality(sub) >= 2 => ret.value = EntriesAt(list, sub)
        /\ sub = {} => /\ ret.value = list
                       /\ Len(warnings) = 1
                       /\ NamesListed(list, warnings[1])

\* C5 (as stated): a hint that exactly matches no descriptor (name, code,
\* id as text) and is a case-insensitive substring of two or more names
\* selects all of those, once each, in registry order; a hint that matches
\* nothing selects the whole registry with a warning listing the names.
C5_AsStated ==
    (/\ FilterCalled
     /\ Truthy(args.target_name)
     /\ UniqueIds(args.stream_list)
     /\ KeyMatches(args.stream_list, args.target_name) = {}) => C5_Promise

\* C5 (amended): the same, for a hint that exactly matches no descriptor
\* and equals no descriptor's name even when letter case is ignored.
C5_NoNameMatch ==
    (/\ FilterCalled
     /\ Truthy(args.target_name)
     /\ KeyMatches(args.stream_list, args.target_name) = {}
     /\ NameMatchesIgnoringCase(args.stream_list, args.target_name) = {}) => C5_Promise

\* A call that selected two or more substring matches out of a registry
\* that also holds a descriptor the hint does not match.
C5_Witness ==
    /\ FilterCalled
    /\ Truthy(args.target_name)
    /\ UniqueIds(args.stream_list)
    /\ KeyMatches(args.stream_list, args.target_name) = {}
    /\ NameMatchesIgnoringCase(args.stream_list, args.target_name) = {}
    /\ Cardinality(SubstringMatches(args.stream_list, args.target_name)) >= 2
    /\ SubstringMatches(args.stream_list, args.target_name) # DOMAIN args.stream_list
    /\ Len(ret.value) = Cardinality(SubstringMatches(args.stream_list, args.target_name))

----------------------------------------------------------------------------
(* C6 *)

\* The request the specification describes for the fallback registry.
IsFallbackRequest(r) ==
    /\ r.method = "GET"
    /\ r.endpoint = "api.flomarching.com/api/experiences/web/legacy-core/live-events/{event_id}"

NoStreamsFound ==
    /\ ret.kind = "raise"
    /\ ret.exc = "ExtractorError"
    /\ ret.msg \in {"No streams found", "No streams found in app state"}

\* C6 (as stated): when the page yields no registry (no script, unparsable
\* content, no or empty stream_list) the live-events metadata API is
\* queried, and the call fails for want of streams only if that API yields
\* no list either.
C6_AsStated ==
    (Finished /\ LoggedIn /\ EmbeddedList = <<>>) =>
        /\ \E i \in DOMAIN net : IsFallbackRequest(net[i])
        /\ NoStreamsFound => env.fallback = <<>>

----------------------------------------------------------------------------
(* C7 *)

\* C7 (as stated): each selected stream gets its own token request, in
\* selection order, also after an earlier selected stream has failed, and
\* 'No playable streams found' is raised only after all were attempted.
C7_AsStated ==
    (Finished /\ LoggedIn /\ Len(Selected) >= 2 /\ ~Playable(Selected[1])) =>
        /\ TokenAttempts = IdsOf(Selected)
        /\ (\A i \in DOMAIN Selected : ~Playable(Selected[i]))
              => RaisedExtractorError("No playable streams found")

----------------------------------------------------------------------------
(* C8 *)

\* C8 (as stated): at reference time T the call returns the uri unchanged
\* for lookback <= 0, and for lookback > 0 the uri, then '?' (or '&' when
\* the uri holds a '?'), then 'start=' and the integer T - 60 * lookback.
C8_AsStated ==
    TimeCalled =>
        LET uri == args.stream_uri
            lookback == args.lookback_minutes
            T == env.clock.sec
            sep == IF \E i \in DOMAIN uri : uri[i] = "?" THEN <<"&">> ELSE <<"?">>
        IN  IF lookback <= 0
            THEN ret.value = uri
            ELSE ret.value = uri \o sep \o <<"s", "t", "a", "r", "t", "=">> \o Str(T - 60 * lookback)

----------------------------------------------------------------------------
(* C9 *)

\* C9 (as stated, on its example): event 164101, one stream 'Main', a
\* valid session, a token answer with data.uri and a manifest of one
\* format give a record with is_live true and exactly one format, whose
\* note is 'Main'.
C9_AsStated ==
    (/\ Finished
     /\ LoggedIn
     /\ locals.event_id = <<"1", "6", "4", "1", "0", "1">>
     /\ env.user_hint = None
     /\ EmbeddedList = <<Main>>
     /\ env.tokens[Main.id] = [ok |-> TRUE, body |-> [data |-> [uri |-> PlaybackUri]]]
     /\ env.manifests[Main.id] = 1) =>
        /\ Returned
        /\ ret.value.is_live
        /\ Len(ret.value.formats) = 1
        /\ ret.value.formats[1].format_note = Main.name

----------------------------------------------------------------------------
(* C10 *)

ResolvedTitle == GetEventTitle(locals.event_id, env.webpage, env.schedule).ret

\* The hint picked out exactly one descriptor by matching it.
OneMatched ==
    /\ env.user_hint # None
    /\ \/ KeyMatches(EmbeddedList, env.user_hint) # {}
       \/ Cardinality(SubstringMatches(EmbeddedList, env.user_hint)) = 1

\* C10 (as stated): the returned title is the resolved event title, with
\* ' - ' and the selected stream's name appended exactly when a hint was
\* given and matched exactly one descriptor.
C10_AsStated ==
    (Finished /\ LoggedIn /\ \E i \in DOMAIN Selected : Playable(Selected[i])) =>
        /\ Returned
        /\ ret.value.title =
             IF OneMatched
             THEN ResolvedTitle \o <<" ", "-", " ">> \o Selected[1].name
             ELSE ResolvedTitle


====
